---- MODULE Spec2Model ----
(***************************************************************************)
(* The pending-booking reminder cron handler of                            *)
(* apps/web/pages/api/cron/bookingReminder.ts as a state machine.          *)
(*                                                                         *)
(* One handler invocation is a process p.  Its steps are the stretches of  *)
(* code between two awaits: the synchronous prologue (authentication,      *)
(* method check), the booking query, the reminder query with the filter,   *)
(* and for each candidate booking the validation, the translator lookups,  *)
(* the e-mail send and the ledger insert.  The handler has no try/catch:   *)
(* a rejected await ends the invocation without a response written by the  *)
(* handler.  The environment advances the clock and moves bookings out of  *)
(* the pending status.                                                     *)
(***************************************************************************)
EXTENDS Integers, FiniteSets, Sequences, TLC

(***************************************************************************)
(* Bounds of the model.                                                    *)
(***************************************************************************)
NumBookings == 2          \* booking ids 1..NumBookings
MaxDecided == 1           \* at most this many bookings leave the pending status
MaxInsertFailures == 1    \* at most this many rejected reminderMail.create calls

Bookings == 1..NumBookings
Handlers == {"h1", "h2"}  \* invocations that may be in flight
Sequential == {"h1"}      \* one invocation at a time

(***************************************************************************)
(* Values of the program.                                                  *)
(***************************************************************************)
Undefined == "undefined"
Null == "null"
Secret == "secret"
Wrong == "wrong"

\* enum BookingStatus and enum ReminderType of @prisma/client; OTHER_REMINDER
\* stands for any other kind sharing the ReminderMail table.
PENDING == "PENDING"
BookingStatus == {"PENDING", "ACCEPTED", "CANCELLED", "REJECTED"}
PENDING_BOOKING_CONFIRMATION == "PENDING_BOOKING_CONFIRMATION"
OTHER_REMINDER == "OTHER_REMINDER"
ReminderType == {PENDING_BOOKING_CONFIRMATION, OTHER_REMINDER}

\* the intervals smallest first
reminderIntervalMinutes_ascending == <<3 * 60, 24 * 60, 48 * 60>>

\* const reminderIntervalMinutes = [48 * 60, 24 * 60, 3 * 60]
reminderIntervalMinutes == <<48 * 60, 24 * 60, 3 * 60>>
Intervals == {reminderIntervalMinutes[i] : i \in 1..Len(reminderIntervalMinutes)}

\* booking.user as selected by the booking query: null, or name, username, timeZone
NoUser == [isNull |-> TRUE, name |-> Null, username |-> Null, timeZone |-> Null]
Users ==
  { NoUser,
    [isNull |-> FALSE, name |-> "Jane", username |-> "jane", timeZone |-> "UTC"],
    [isNull |-> FALSE, name |-> Null, username |-> "jane", timeZone |-> "UTC"],
    [isNull |-> FALSE, name |-> "Jane", username |-> "jane", timeZone |-> Null],
    [isNull |-> FALSE, name |-> Null, username |-> Null, timeZone |-> "UTC"] }

\* booking.attendees: name, email, timeZone and locale (null when unset)
Attendee(n, l) == [name |-> n, email |-> n, timeZone |-> "UTC", locale |-> l]
OneAttendee == <<Attendee("a1", Null)>>
ThreeAttendees == <<Attendee("a1", "fr"), Attendee("a2", Null), Attendee("a3", "es")>>

\* a ?? b
Coalesce(a, b) == IF a \in {Undefined, Null} THEN b ELSE a

\* the function getTranslation(locale, "common") resolves to
Translator(locale) == <<"t", locale>>

\* the element of attendeesList made from one attendee
Payload(a) ==
  [name |-> a.name, email |-> a.email, timeZone |-> a.timeZone,
   language |-> [translate |-> Translator(Coalesce(a.locale, "en")),
                 locale |-> Coalesce(a.locale, "en")]]

\* an element of the result of Promise.all whose promise is pending
Unsettled ==
  [name |-> Undefined, email |-> Undefined, timeZone |-> Undefined,
   language |-> [translate |-> Translator(Undefined), locale |-> Undefined]]

\* rows of the ReminderMail table, without the generated id
ReminderRows == [referenceId : Bookings, reminderType : ReminderType, elapsedMinutes : Intervals]

\* JavaScript truthiness of a string | undefined | null value
Truthy(x) == x \notin {Undefined, Null, ""}

\* a || b
Or(a, b) == IF Truthy(a) THEN a ELSE b

HeaderValues == {Undefined, Secret, Wrong}
QueryValues == {Undefined, Secret}
Requests == [authorization : HeaderValues, apiKey : QueryValues, method : {"POST", "GET"}]
NoReq == [authorization |-> Undefined, apiKey |-> Undefined, method |-> "none"]
NoRes == [status |-> 0, message |-> "", notificationsSent |-> 0]

VARIABLES
  now,                \* the wall clock read by dayjs(), in minutes
  booking,            \* the Booking table: id -> [status, createdAt, user]
  reminderMail,       \* the ReminderMail table: row -> number of copies
  CRON_API_KEY,       \* process.env.CRON_API_KEY
  pc,                 \* per invocation: "idle", "handler" (called, not yet run) or the await it is suspended at
  req,                \* per invocation: the request, until the prologue has read it
  res,                \* per invocation: the response written by the handler
  thrownAt,           \* per invocation: the call whose rejection ended it, or ""
  idx,                \* per invocation: position in reminderIntervalMinutes
  bookings,           \* per invocation: result of prisma.booking.findMany
  reminders,          \* per invocation: result of prisma.reminderMail.findMany
  todo,               \* per invocation: candidates not yet iterated
  cur,                \* per invocation: the booking of the current iteration, or 0
  notificationsSent,  \* per invocation: the counter
  inserted,           \* per invocation: the <<booking, interval>> of the records its latest dispatch created
  attendeesList,      \* per invocation: the result array of Promise.all, Unsettled where a promise is pending
  completion,         \* per invocation: the attendee promises in the order they were fulfilled
  payloads,           \* <<booking, evt.attendees>> of the calls of the sender that resolved
  emails,             \* calls of sendOrganizerRequestReminderEmail that resolved: <<booking, interval>> -> count
  organizerNames,     \* <<booking, evt.organizer.name>> of those calls
  pendingAtQuery,     \* per invocation: the bookings that were pending when the booking query of this pass ran
  calm,               \* per invocation: "changed" | "first" | "again" (see Accept)
  settled             \* the latest dispatch answered 200, clock and bookings unchanged since it began

vars == <<now, booking, reminderMail, CRON_API_KEY, pc, req, res, thrownAt, idx, bookings,
          reminders, todo, cur, notificationsSent, inserted, attendeesList, completion,
          payloads, emails, organizerNames,
          pendingAtQuery, calm, settled>>

tables == <<booking, reminderMail>>
locals == <<idx, bookings, reminders, todo, cur>>
outbox == <<emails, organizerNames, payloads>>
fanout == <<attendeesList, completion>>

interval(p) == reminderIntervalMinutes[idx[p]]

\* the handlers at rest, nothing sent yet
InitHandlers ==
  /\ now = 0
  /\ pc = [p \in Handlers |-> "idle"]
  /\ req = [p \in Handlers |-> NoReq]
  /\ res = [p \in Handlers |-> NoRes]
  /\ thrownAt = [p \in Handlers |-> ""]
  /\ idx = [p \in Handlers |-> 1]
  /\ bookings = [p \in Handlers |-> {}]
  /\ reminders = [p \in Handlers |-> {}]
  /\ todo = [p \in Handlers |-> {}]
  /\ cur = [p \in Handlers |-> 0]
  /\ notificationsSent = [p \in Handlers |-> 0]
  /\ inserted = [p \in Handlers |-> {}]
  /\ attendeesList = [p \in Handlers |-> <<>>]
  /\ completion = [p \in Handlers |-> <<>>]
  /\ payloads = {}
  /\ emails = [k \in Bookings \X Intervals |-> 0]
  /\ organizerNames = {}
  /\ pendingAtQuery = [p \in Handlers |-> {}]
  /\ calm = [p \in Handlers |-> "changed"]
  /\ settled = FALSE

\* the ReminderMail table before the first invocation: a reminder of another
\* kind for the first booking, none of this kind
InitReminderMail ==
  [r \in ReminderRows |->
     IF r = [referenceId |-> 1, reminderType |-> OTHER_REMINDER,
             elapsedMinutes |-> reminderIntervalMinutes[1]] THEN 1 ELSE 0]

\* an organizer with every property, and the Booking table before the first
\* invocation: all bookings pending and created at minute 0; the first booking
\* has any kind of organizer and no attendee, the other ones a complete
\* organizer and the given attendees
CompleteUser == [isNull |-> FALSE, name |-> "Jane", username |-> "jane", timeZone |-> "UTC"]
InitBooking(users, others) ==
  /\ booking \in [Bookings -> [status : {PENDING}, createdAt : {0}, user : Users,
                                attendees : {<<>>, others}]]
  /\ booking[1].user \in users /\ booking[1].attendees = <<>>
  /\ \A b \in Bookings \ {1} : booking[b].user = CompleteUser /\ booking[b].attendees = others

Init ==
  /\ InitHandlers
  /\ InitBooking(Users, OneAttendee)
  /\ reminderMail = InitReminderMail
  /\ CRON_API_KEY = Secret

\* the same with the secret configured or not, and fewer organizers
InitTrigger ==
  /\ InitHandlers
  /\ InitBooking({NoUser}, OneAttendee)
  /\ reminderMail = InitReminderMail
  /\ CRON_API_KEY \in {Undefined, Secret}

(***************************************************************************)
(* The pure parts of the handler.                                          *)
(***************************************************************************)

\* const apiKey = req.headers.authorization || req.query.apiKey
ApiKey(r) == Or(r.authorization, r.apiKey)

\* !(process.env.CRON_API_KEY !== apiKey)
Authenticated(key, r) == key = ApiKey(r)

\* the query with lt in place of lte
FindBookings_lt(table, clock, minutes) ==
  {b \in Bookings : table[b].status = PENDING /\ table[b].createdAt < clock - minutes}

\* the query without its status filter
FindBookings_anyStatus(table, clock, minutes) ==
  {b \in Bookings : table[b].createdAt <= clock - minutes}

\* prisma.booking.findMany({where: {status: PENDING, createdAt: {lte: now - interval}}})
FindBookings(table, clock, minutes) ==
  {b \in Bookings : table[b].status = PENDING /\ table[b].createdAt <= clock - minutes}

\* the query with lte in place of gte
FindReminders_lte(table, ids, minutes) ==
  {r \in ReminderRows : /\ table[r] > 0
                        /\ r.reminderType = PENDING_BOOKING_CONFIRMATION
                        /\ r.referenceId \in ids
                        /\ r.elapsedMinutes <= minutes}

\* the query with gt in place of gte
FindReminders_gt(table, ids, minutes) ==
  {r \in ReminderRows : /\ table[r] > 0
                        /\ r.reminderType = PENDING_BOOKING_CONFIRMATION
                        /\ r.referenceId \in ids
                        /\ r.elapsedMinutes > minutes}

\* the query with an exact match in place of gte
FindReminders_exact(table, ids, minutes) ==
  {r \in ReminderRows : /\ table[r] > 0
                        /\ r.reminderType = PENDING_BOOKING_CONFIRMATION
                        /\ r.referenceId \in ids
                        /\ r.elapsedMinutes = minutes}

\* prisma.reminderMail.findMany({where: {reminderType, referenceId: {in}, elapsedMinutes: {gte}}})
FindReminders(table, ids, minutes) ==
  {r \in ReminderRows : /\ table[r] > 0
                        /\ r.reminderType = PENDING_BOOKING_CONFIRMATION
                        /\ r.referenceId \in ids
                        /\ r.elapsedMinutes >= minutes}

\* the bookings without the filter
Candidates_noFilter(found, rows) == found

\* bookings.filter((b) => !reminders.some((r) => r.referenceId == b.id))
Candidates(found, rows) == {b \in found : ~ \E r \in rows : r.referenceId = b}

\* const name = user?.name || user?.username
OrganizerName(user) == IF user.isNull THEN Undefined ELSE Or(user.name, user.username)

\* the validation without its timezone test
MissingProperties_noTimeZoneTest(user) ==
  user.isNull \/ ~Truthy(OrganizerName(user))

\* !user || !name || !user.timeZone
MissingProperties(user) ==
  user.isNull \/ ~Truthy(OrganizerName(user)) \/ ~Truthy(user.timeZone)

\* the record written with the smallest interval instead of the current one
NewReminder_smallestInterval(b, minutes) ==
  [referenceId |-> b, reminderType |-> PENDING_BOOKING_CONFIRMATION,
   elapsedMinutes |-> reminderIntervalMinutes[Len(reminderIntervalMinutes)]]

\* data of prisma.reminderMail.create
NewReminder(b, minutes) ==
  [referenceId |-> b, reminderType |-> PENDING_BOOKING_CONFIRMATION, elapsedMinutes |-> minutes]

(***************************************************************************)
(* A whole dispatch as a function: the passes of lines 25-117 over a list  *)
(* of intervals, with the clock and the bookings fixed and every await     *)
(* resolving.  A result is the ledger, the <<booking, interval>> sent and  *)
(* recorded, and the counter.                                              *)
(***************************************************************************)

\* one pass of the loop over the intervals
Pass(st, minutes, table, clock) ==
  LET found == FindBookings(table, clock, minutes)
      rows == FindReminders(st.ledger, found, minutes)
      done == {b \in Candidates(found, rows) : ~MissingProperties(table[b].user)}
  IN [ledger |-> [r \in ReminderRows |->
                    IF \E b \in done : r = NewReminder(b, minutes)
                    THEN st.ledger[r] + 1 ELSE st.ledger[r]],
      sent |-> st.sent \cup {<<b, minutes>> : b \in done},
      notificationsSent |-> st.notificationsSent + Cardinality(done)]

\* the passes for order[i], order[i + 1], ...
RECURSIVE PassesFrom(_, _, _, _, _)
PassesFrom(order, i, st, table, clock) ==
  IF i > Len(order) THEN st
  ELSE PassesFrom(order, i + 1, Pass(st, order[i], table, clock), table, clock)

\* let notificationsSent = 0; for (const interval of order) { ... }
RunPasses(order, ledger, table, clock) ==
  PassesFrom(order, 1, [ledger |-> ledger, sent |-> {}, notificationsSent |-> 0], table, clock)

(***************************************************************************)
(* What has been sent and recorded.                                        *)
(***************************************************************************)

RECURSIVE SumOver(_, _)
SumOver(f, S) ==
  IF S = {} THEN 0
  ELSE LET x == CHOOSE y \in S : TRUE IN f[x] + SumOver(f, S \ {x})

\* e-mails that went out and whose reminderMail.create was rejected
InsertFailures ==
  SumOver(emails, Bookings \X Intervals)
    - SumOver(reminderMail, {r \in ReminderRows : r.reminderType = PENDING_BOOKING_CONFIRMATION})
    - Cardinality({p \in Handlers : pc[p] = "reminderMail.create"})

(***************************************************************************)
(* The handler, one action per stretch of code between awaits.             *)
(***************************************************************************)

\* the framework calls handler(req, res) for a new request
Call(p, r) ==
  /\ pc[p] = "idle"
  /\ pc' = [pc EXCEPT ![p] = "handler"]
  /\ req' = [req EXCEPT ![p] = r]
  /\ res' = [res EXCEPT ![p] = NoRes]
  /\ thrownAt' = [thrownAt EXCEPT ![p] = ""]
  /\ UNCHANGED <<now, tables, CRON_API_KEY, locals, notificationsSent, inserted, fanout, outbox,
                 pendingAtQuery, calm, settled>>

\* the 401 branch without its return: the dispatch runs all the same
Reject401_noReturn(p) ==
  /\ pc[p] = "handler"
  /\ ~Authenticated(CRON_API_KEY, req[p])
  /\ res' = [res EXCEPT ![p] = [NoRes EXCEPT !.status = 401, !.message = "Not authenticated"]]
  /\ req' = [req EXCEPT ![p] = NoReq]
  /\ pc' = [pc EXCEPT ![p] = "booking.findMany"]
  /\ UNCHANGED <<now, tables, CRON_API_KEY, thrownAt, locals, notificationsSent, inserted, fanout, outbox,
                 pendingAtQuery, calm, settled>>

\* res.status(401).json({ message: "Not authenticated" }); return
Reject401(p) ==
  /\ pc[p] = "handler"
  /\ ~Authenticated(CRON_API_KEY, req[p])
  /\ res' = [res EXCEPT ![p] = [NoRes EXCEPT !.status = 401, !.message = "Not authenticated"]]
  /\ req' = [req EXCEPT ![p] = NoReq]
  /\ pc' = [pc EXCEPT ![p] = "idle"]
  /\ UNCHANGED <<now, tables, CRON_API_KEY, thrownAt, locals, notificationsSent, inserted, fanout, outbox,
                 pendingAtQuery, calm, settled>>

\* res.status(405).json({ message: "Invalid method" }); return
Reject405(p) ==
  /\ pc[p] = "handler"
  /\ Authenticated(CRON_API_KEY, req[p])
  /\ req[p].method # "POST"
  /\ res' = [res EXCEPT ![p] = [NoRes EXCEPT !.status = 405, !.message = "Invalid method"]]
  /\ req' = [req EXCEPT ![p] = NoReq]
  /\ pc' = [pc EXCEPT ![p] = "idle"]
  /\ UNCHANGED <<now, tables, CRON_API_KEY, thrownAt, locals, notificationsSent, inserted, fanout, outbox,
                 pendingAtQuery, calm, settled>>

\* both checks pass: let notificationsSent = 0, and the interval loop is
\* entered up to its first await.  calm[p] is "changed" once the clock or a
\* booking has changed since p began, else "again" if p began in a settled
\* state (right after a dispatch that answered 200), else "first".
Accept(p) ==
  /\ pc[p] = "handler"
  /\ Authenticated(CRON_API_KEY, req[p])
  /\ req[p].method = "POST"
  /\ req' = [req EXCEPT ![p] = NoReq]
  /\ notificationsSent' = [notificationsSent EXCEPT ![p] = 0]
  /\ inserted' = [inserted EXCEPT ![p] = {}]
  /\ idx' = [idx EXCEPT ![p] = 1]
  /\ calm' = [calm EXCEPT ![p] = IF settled THEN "again" ELSE "first"]
  /\ pc' = [pc EXCEPT ![p] = "booking.findMany"]
  /\ UNCHANGED <<now, tables, CRON_API_KEY, res, thrownAt, bookings, reminders, todo, cur,
                 fanout, outbox, pendingAtQuery, settled>>

\* the invocation is over: its locals are gone (inserted, which is no local,
\* is kept by an invocation that was aborted until the next dispatch begins)
Return(p) ==
  /\ pc' = [pc EXCEPT ![p] = "idle"]
  /\ idx' = [idx EXCEPT ![p] = 1]
  /\ bookings' = [bookings EXCEPT ![p] = {}]
  /\ reminders' = [reminders EXCEPT ![p] = {}]
  /\ todo' = [todo EXCEPT ![p] = {}]
  /\ cur' = [cur EXCEPT ![p] = 0]
  /\ attendeesList' = [attendeesList EXCEPT ![p] = <<>>]
  /\ completion' = [completion EXCEPT ![p] = <<>>]
  /\ notificationsSent' = [notificationsSent EXCEPT ![p] = 0]
  /\ pendingAtQuery' = [pendingAtQuery EXCEPT ![p] = {}]
  /\ calm' = [calm EXCEPT ![p] = "changed"]

\* a rejected await: the handler has no try/catch, so the rejection leaves
\* handler() and no response is written by it
Throw(p, call) ==
  /\ pc[p] = call
  /\ thrownAt' = [thrownAt EXCEPT ![p] = call]
  /\ Return(p)
  /\ UNCHANGED <<now, tables, CRON_API_KEY, req, res, inserted, outbox, settled>>

\* const bookings = await prisma.booking.findMany(...)
BookingQuery(p) ==
  /\ pc[p] = "booking.findMany"
  /\ bookings' = [bookings EXCEPT ![p] = FindBookings(booking, now, interval(p))]
  /\ pendingAtQuery' = [pendingAtQuery EXCEPT ![p] = {b \in Bookings : booking[b].status = PENDING}]
  /\ pc' = [pc EXCEPT ![p] = "reminderMail.findMany"]
  /\ UNCHANGED <<now, tables, CRON_API_KEY, req, res, thrownAt, idx, reminders, todo, cur,
                 notificationsSent, inserted, fanout, outbox, calm, settled>>

\* the rejection caught around the loop and answered with the count so far
BookingQueryFail_partial200(p) ==
  /\ pc[p] = "booking.findMany"
  /\ thrownAt' = [thrownAt EXCEPT ![p] = "booking.findMany"]
  /\ res' = [res EXCEPT ![p] = [NoRes EXCEPT !.status = 200,
                                             !.notificationsSent = notificationsSent[p]]]
  /\ Return(p)
  /\ UNCHANGED <<now, tables, CRON_API_KEY, req, inserted, outbox, settled>>

\* await prisma.booking.findMany(...) rejects
BookingQueryFail(p) == Throw(p, "booking.findMany")

\* const reminders = await prisma.reminderMail.findMany(...), and the filter of the for loop
ReminderQuery(p) ==
  /\ pc[p] = "reminderMail.findMany"
  /\ LET rows == FindReminders(reminderMail, bookings[p], interval(p)) IN
       /\ reminders' = [reminders EXCEPT ![p] = rows]
       /\ todo' = [todo EXCEPT ![p] = Candidates(bookings[p], rows)]
  /\ pc' = [pc EXCEPT ![p] = "for"]
  /\ UNCHANGED <<now, tables, CRON_API_KEY, req, res, thrownAt, idx, bookings, cur,
                 notificationsSent, inserted, fanout, outbox, pendingAtQuery, calm, settled>>

\* await prisma.reminderMail.findMany(...) rejects
ReminderQueryFail(p) == Throw(p, "reminderMail.findMany")

\* the validation branch with break in place of continue
SkipBooking_break(p, b) ==
  /\ pc[p] = "for"
  /\ b \in todo[p]
  /\ MissingProperties(booking[b].user)
  /\ todo' = [todo EXCEPT ![p] = {}]
  /\ UNCHANGED <<now, tables, CRON_API_KEY, pc, req, res, thrownAt, idx, bookings, reminders,
                 cur, notificationsSent, inserted, fanout, outbox, pendingAtQuery, calm, settled>>

\* an iteration whose booking lacks the required properties: console.error; continue
SkipBooking(p, b) ==
  /\ pc[p] = "for"
  /\ b \in todo[p]
  /\ MissingProperties(booking[b].user)
  /\ todo' = [todo EXCEPT ![p] = @ \ {b}]
  /\ UNCHANGED <<now, tables, CRON_API_KEY, pc, req, res, thrownAt, idx, bookings, reminders,
                 cur, notificationsSent, inserted, fanout, outbox, pendingAtQuery, calm, settled>>

\* an iteration whose booking passes the validation, up to await getTranslation
BeginBooking(p, b) ==
  /\ pc[p] = "for"
  /\ b \in todo[p]
  /\ ~MissingProperties(booking[b].user)
  /\ todo' = [todo EXCEPT ![p] = @ \ {b}]
  /\ cur' = [cur EXCEPT ![p] = b]
  /\ pc' = [pc EXCEPT ![p] = "getTranslation"]
  /\ UNCHANGED <<now, tables, CRON_API_KEY, req, res, thrownAt, idx, bookings, reminders,
                 notificationsSent, inserted, fanout, outbox, pendingAtQuery, calm, settled>>

\* tOrganizer is resolved and booking.attendees.map starts one promise per
\* attendee; Promise.all of no promise is fulfilled at once, and then evt is
\* composed and the sender is called
Translate(p) ==
  /\ pc[p] = "getTranslation"
  /\ LET n == Len(booking[cur[p]].attendees) IN
       /\ attendeesList' = [attendeesList EXCEPT ![p] = [i \in 1..n |-> Unsettled]]
       /\ pc' = [pc EXCEPT ![p] = IF n = 0 THEN "sendOrganizerRequestReminderEmail"
                                           ELSE "Promise.all"]
  /\ completion' = [completion EXCEPT ![p] = <<>>]
  /\ UNCHANGED <<now, tables, CRON_API_KEY, req, res, thrownAt, locals, notificationsSent,
                 inserted, outbox, pendingAtQuery, calm, settled>>

\* await getTranslation(user.locale ?? "en", "common") rejects
TranslateFail(p) == Throw(p, "getTranslation")

\* Promise.all collecting the values in the order the promises are fulfilled
ResolveAttendee_completionOrder(p, i) ==
  /\ pc[p] = "Promise.all"
  /\ i \in DOMAIN attendeesList[p]
  /\ i \notin {completion[p][k] : k \in DOMAIN completion[p]}
  /\ LET slot == Len(completion[p]) + 1
         list == [attendeesList[p] EXCEPT ![slot] = Payload(booking[cur[p]].attendees[i])]
     IN /\ attendeesList' = [attendeesList EXCEPT ![p] = list]
        /\ pc' = [pc EXCEPT ![p] = IF \A k \in DOMAIN list : list[k] # Unsettled
                                   THEN "sendOrganizerRequestReminderEmail" ELSE "Promise.all"]
  /\ completion' = [completion EXCEPT ![p] = Append(@, i)]
  /\ UNCHANGED <<now, tables, CRON_API_KEY, req, res, thrownAt, locals, notificationsSent,
                 inserted, outbox, pendingAtQuery, calm, settled>>

\* the getTranslation of attendee i resolves and its promise is fulfilled:
\* Promise.all stores the value at index i; when it was the last one,
\* attendeesList is there, evt is composed and the sender is called
ResolveAttendee(p, i) ==
  /\ pc[p] = "Promise.all"
  /\ i \in DOMAIN attendeesList[p]
  /\ attendeesList[p][i] = Unsettled
  /\ LET list == [attendeesList[p] EXCEPT ![i] = Payload(booking[cur[p]].attendees[i])]
     IN /\ attendeesList' = [attendeesList EXCEPT ![p] = list]
        /\ pc' = [pc EXCEPT ![p] = IF \A k \in DOMAIN list : list[k] # Unsettled
                                   THEN "sendOrganizerRequestReminderEmail" ELSE "Promise.all"]
  /\ completion' = [completion EXCEPT ![p] = Append(@, i)]
  /\ UNCHANGED <<now, tables, CRON_API_KEY, req, res, thrownAt, locals, notificationsSent,
                 inserted, outbox, pendingAtQuery, calm, settled>>

\* the getTranslation of a pending attendee rejects: Promise.all rejects
AttendeeFail(p) == Throw(p, "Promise.all")

\* the counter incremented when the e-mail is out, before the record is created
Send_counts(p) ==
  /\ pc[p] = "sendOrganizerRequestReminderEmail"
  /\ emails' = [emails EXCEPT ![<<cur[p], interval(p)>>] = @ + 1]
  /\ organizerNames' = organizerNames \cup {<<cur[p], OrganizerName(booking[cur[p]].user)>>}
  /\ payloads' = payloads \cup {<<cur[p], attendeesList[p]>>}
  /\ notificationsSent' = [notificationsSent EXCEPT ![p] = @ + 1]
  /\ pc' = [pc EXCEPT ![p] = "reminderMail.create"]
  /\ UNCHANGED <<now, tables, CRON_API_KEY, req, res, thrownAt, locals,
                 inserted, fanout, pendingAtQuery, calm, settled>>

\* await sendOrganizerRequestReminderEmail(evt) resolves: the e-mail is out
Send(p) ==
  /\ pc[p] = "sendOrganizerRequestReminderEmail"
  /\ emails' = [emails EXCEPT ![<<cur[p], interval(p)>>] = @ + 1]
  /\ organizerNames' = organizerNames \cup {<<cur[p], OrganizerName(booking[cur[p]].user)>>}
  /\ payloads' = payloads \cup {<<cur[p], attendeesList[p]>>}
  /\ pc' = [pc EXCEPT ![p] = "reminderMail.create"]
  /\ UNCHANGED <<now, tables, CRON_API_KEY, req, res, thrownAt, locals, notificationsSent,
                 inserted, fanout, pendingAtQuery, calm, settled>>

\* the record written before the send, so that a rejected send leaves it behind
SendFail_recordWritten(p) ==
  /\ pc[p] = "sendOrganizerRequestReminderEmail"
  /\ reminderMail' = [reminderMail EXCEPT ![NewReminder(cur[p], interval(p))] = @ + 1]
  /\ thrownAt' = [thrownAt EXCEPT ![p] = "sendOrganizerRequestReminderEmail"]
  /\ Return(p)
  /\ UNCHANGED <<now, booking, CRON_API_KEY, req, res, inserted, outbox, settled>>

\* await sendOrganizerRequestReminderEmail(evt) rejects: nothing was delivered
SendFail(p) == Throw(p, "sendOrganizerRequestReminderEmail")

\* the booking's record updated to the new interval instead of a record added
Create_update(p) ==
  /\ pc[p] = "reminderMail.create"
  /\ reminderMail' = [r \in ReminderRows |->
                        IF r = NewReminder(cur[p], interval(p)) THEN 1
                        ELSE IF r.referenceId = cur[p]
                                  /\ r.reminderType = PENDING_BOOKING_CONFIRMATION THEN 0
                        ELSE reminderMail[r]]
  /\ notificationsSent' = [notificationsSent EXCEPT ![p] = @ + 1]
  /\ inserted' = [inserted EXCEPT ![p] = @ \cup {<<cur[p], interval(p)>>}]
  /\ cur' = [cur EXCEPT ![p] = 0]
  /\ attendeesList' = [attendeesList EXCEPT ![p] = <<>>]
  /\ completion' = [completion EXCEPT ![p] = <<>>]
  /\ pc' = [pc EXCEPT ![p] = "for"]
  /\ UNCHANGED <<now, booking, CRON_API_KEY, req, res, thrownAt, idx, bookings, reminders,
                 todo, outbox, pendingAtQuery, calm, settled>>

\* the record created twice
Create_twice(p) ==
  /\ pc[p] = "reminderMail.create"
  /\ reminderMail' = [reminderMail EXCEPT ![NewReminder(cur[p], interval(p))] = @ + 2]
  /\ notificationsSent' = [notificationsSent EXCEPT ![p] = @ + 1]
  /\ inserted' = [inserted EXCEPT ![p] = @ \cup {<<cur[p], interval(p)>>}]
  /\ cur' = [cur EXCEPT ![p] = 0]
  /\ attendeesList' = [attendeesList EXCEPT ![p] = <<>>]
  /\ completion' = [completion EXCEPT ![p] = <<>>]
  /\ pc' = [pc EXCEPT ![p] = "for"]
  /\ UNCHANGED <<now, booking, CRON_API_KEY, req, res, thrownAt, idx, bookings, reminders,
                 todo, outbox, pendingAtQuery, calm, settled>>

\* await prisma.reminderMail.create(...) resolves; notificationsSent++
Create(p) ==
  /\ pc[p] = "reminderMail.create"
  /\ reminderMail' = [reminderMail EXCEPT ![NewReminder(cur[p], interval(p))] = @ + 1]
  /\ notificationsSent' = [notificationsSent EXCEPT ![p] = @ + 1]
  /\ inserted' = [inserted EXCEPT ![p] = @ \cup {<<cur[p], interval(p)>>}]
  /\ cur' = [cur EXCEPT ![p] = 0]
  /\ attendeesList' = [attendeesList EXCEPT ![p] = <<>>]
  /\ completion' = [completion EXCEPT ![p] = <<>>]
  /\ pc' = [pc EXCEPT ![p] = "for"]
  /\ UNCHANGED <<now, booking, CRON_API_KEY, req, res, thrownAt, idx, bookings, reminders,
                 todo, outbox, pendingAtQuery, calm, settled>>

\* await prisma.reminderMail.create(...) rejects after the e-mail went out
CreateFail(p) ==
  /\ InsertFailures < MaxInsertFailures
  /\ Throw(p, "reminderMail.create")

\* the for loop over the candidates is exhausted: the next interval
NextInterval(p) ==
  /\ pc[p] = "for"
  /\ todo[p] = {}
  /\ idx[p] < Len(reminderIntervalMinutes)
  /\ idx' = [idx EXCEPT ![p] = @ + 1]
  /\ bookings' = [bookings EXCEPT ![p] = {}]
  /\ reminders' = [reminders EXCEPT ![p] = {}]
  /\ pendingAtQuery' = [pendingAtQuery EXCEPT ![p] = {}]
  /\ pc' = [pc EXCEPT ![p] = "booking.findMany"]
  /\ UNCHANGED <<now, tables, CRON_API_KEY, req, res, thrownAt, todo, cur, notificationsSent, inserted, fanout,
                 outbox, calm, settled>>

\* the last interval is done: res.status(200).json({ notificationsSent })
Respond200(p) ==
  /\ pc[p] = "for"
  /\ todo[p] = {}
  /\ idx[p] = Len(reminderIntervalMinutes)
  /\ res' = [res EXCEPT ![p] = [NoRes EXCEPT !.status = 200,
                                             !.notificationsSent = notificationsSent[p]]]
  /\ settled' = (calm[p] # "changed")
  /\ inserted' = [inserted EXCEPT ![p] = {}]
  /\ Return(p)
  /\ UNCHANGED <<now, tables, CRON_API_KEY, req, thrownAt, outbox>>

(***************************************************************************)
(* The environment.                                                        *)
(***************************************************************************)

\* the instants at which the answer of some booking query changes
Instants == {booking[b].createdAt + m : b \in Bookings, m \in Intervals}

\* the clock or a booking changed: no invocation is a rerun any more
Disturb ==
  /\ calm' = [p \in Handlers |-> "changed"]
  /\ settled' = FALSE

\* the clock advances, by any amount
Tick(t) ==
  /\ t \in Instants
  /\ t > now
  /\ now' = t
  /\ Disturb
  /\ UNCHANGED <<tables, CRON_API_KEY, pc, req, res, thrownAt, locals, notificationsSent, inserted, fanout,
                 outbox, pendingAtQuery>>

\* the organizer confirms or rejects a booking, or it is cancelled
Decide(b, s) ==
  /\ booking[b].status = PENDING
  /\ s \in BookingStatus \ {PENDING}
  /\ Cardinality({d \in Bookings : booking[d].status # PENDING}) < MaxDecided
  /\ booking' = [booking EXCEPT ![b].status = s]
  /\ Disturb
  /\ UNCHANGED <<now, reminderMail, CRON_API_KEY, pc, req, res, thrownAt, locals,
                 notificationsSent, inserted, fanout, outbox, pendingAtQuery>>

\* the steps of an invocation whose awaits all resolve
Run(p) ==
  \/ Accept(p)
  \/ BookingQuery(p)
  \/ ReminderQuery(p)
  \/ \E b \in Bookings : SkipBooking(p, b)
  \/ \E b \in Bookings : BeginBooking(p, b)
  \/ Translate(p)
  \/ \E i \in DOMAIN attendeesList[p] : ResolveAttendee(p, i)
  \/ Send(p)
  \/ Create(p)
  \/ NextInterval(p)
  \/ Respond200(p)

Handler(p) ==
  \/ \E r \in Requests : Call(p, r)
  \/ Reject401(p)
  \/ Reject405(p)
  \/ Run(p)
  \/ BookingQueryFail(p)
  \/ ReminderQueryFail(p)
  \/ TranslateFail(p)
  \/ AttendeeFail(p)
  \/ SendFail(p)
  \/ CreateFail(p)

Environment ==
  \/ \E t \in Instants : Tick(t)
  \/ \E b \in Bookings, s \in BookingStatus : Decide(b, s)

\* invocations one after the other
Next == (\E p \in Sequential : Handler(p)) \/ Environment

Spec == Init /\ [][Next]_vars

\* the same, for the claims about the trigger
SpecTrigger == InitTrigger /\ [][Next]_vars

\* invocations that may overlap
InitOverlap ==
  /\ InitHandlers
  /\ InitBooking({NoUser}, OneAttendee)
  /\ reminderMail = InitReminderMail
  /\ CRON_API_KEY = Secret

\* authenticated POST requests only, every await resolves, bookings stay pending
GoodRequest == [authorization |-> Secret, apiKey |-> Undefined, method |-> "POST"]

NextOverlap ==
  \/ \E p \in Handlers : Call(p, GoodRequest) \/ Run(p)
  \/ \E t \in Instants : Tick(t)

SpecOverlap == InitOverlap /\ [][NextOverlap]_vars

\* a booking with three attendees, authenticated POST requests, and the
\* translator lookups may be rejected
InitFanOut ==
  /\ InitHandlers
  /\ InitBooking({NoUser}, ThreeAttendees)
  /\ reminderMail = InitReminderMail
  /\ CRON_API_KEY = Secret

NextFanOut ==
  \/ \E p \in Sequential : \/ Call(p, GoodRequest)
                             \/ Run(p)
                             \/ TranslateFail(p)
                             \/ AttendeeFail(p)
  \/ \E t \in Instants : Tick(t)

SpecFanOut == InitFanOut /\ [][NextFanOut]_vars

\* invocations one after the other whose awaits all resolve, while the clock
\* advances and bookings are decided
InitOrder ==
  /\ InitHandlers
  /\ InitBooking({NoUser, CompleteUser}, OneAttendee)
  /\ reminderMail = InitReminderMail
  /\ CRON_API_KEY = Secret

NextOrder ==
  \/ \E p \in Sequential : Call(p, GoodRequest) \/ Run(p)
  \/ Environment

SpecOrder == InitOrder /\ [][NextOrder]_vars

\* the cron job keeps triggering the handler with authenticated POST
\* requests, bookings stay pending, and every await may be rejected but
\* resolves in the end
InitLive ==
  /\ InitHandlers
  /\ InitBooking({NoUser}, OneAttendee)
  /\ reminderMail = InitReminderMail
  /\ CRON_API_KEY = Secret

NextLive ==
  \/ \E p \in Sequential : \/ Call(p, GoodRequest)
                             \/ Run(p)
                             \/ BookingQueryFail(p)
                             \/ ReminderQueryFail(p)
                             \/ TranslateFail(p)
                             \/ AttendeeFail(p)
                             \/ SendFail(p)
                             \/ CreateFail(p)
  \/ \E t \in Instants : Tick(t)

\* requests keep coming, and an invocation that has been called goes on:
\* every await settles and the code after it runs
FairLive ==
  \A p \in Sequential :
    /\ WF_vars(Call(p, GoodRequest))
    /\ WF_vars(Run(p))

SpecLive == InitLive /\ [][NextLive]_vars /\ FairLive

(***************************************************************************)
(* Properties.                                                             *)
(***************************************************************************)

SendAwait == "sendOrganizerRequestReminderEmail"
CreateAwait == "reminderMail.create"

\* the row of this reminder kind for booking b at m minutes
Row(b, m) ==
  [referenceId |-> b, reminderType |-> PENDING_BOOKING_CONFIRMATION, elapsedMinutes |-> m]

\* the ledger holds a record of this kind for b with elapsedMinutes >= m
HasRecord(b, m) == \E n \in Intervals : n >= m /\ reminderMail[Row(b, n)] > 0

\* calls of the sender for <<b, m>> that resolved or are still awaited
Calls(b, m) ==
  emails[<<b, m>>]
    + Cardinality({p \in Handlers : pc[p] = SendAwait /\ cur[p] = b /\ interval(p) = m})

Silent(p) ==
  /\ emails' = emails
  /\ reminderMail' = reminderMail
  /\ pc'[p] # SendAwait
  /\ notificationsSent'[p] = 0
  /\ res'[p].status = 200 => res'[p].notificationsSent = 0

\* C2: an invocation that runs right after one that answered 200, with the
\* clock and the bookings unchanged since that earlier invocation began, calls
\* the sender zero times, inserts no record and returns notificationsSent = 0.
C2_SecondRunSendsNothing ==
  [][\A p \in Sequential : calm[p] = "again" => Silent(p)]_vars

\* C2 witness: such a second invocation fetches bookings in its last pass and
\* finds them all recorded.
C2_Witness ==
  /\ calm["h1"] = "again"
  /\ pc["h1"] = "for" /\ interval("h1") = 180
  /\ bookings["h1"] # {} /\ todo["h1"] = {} /\ reminders["h1"] # {}
  /\ notificationsSent["h1"] = 0

\* C3: when the reminder query of a pass for m minutes returns, a fetched
\* booking is left out of the candidates if and only if the ledger holds a
\* record of kind PENDING_BOOKING_CONFIRMATION for it with elapsedMinutes >= m.
C3_AsymmetricSuppression ==
  [][\A p \in Sequential :
       (pc[p] = "reminderMail.findMany" /\ pc'[p] = "for")
         => \A b \in bookings[p] : (b \notin todo'[p]) <=> HasRecord(b, interval(p))]_vars

\* C3 witness: in a pass for 1440 minutes a booking recorded only at 180 is a
\* candidate, next to the first booking's record of another kind at 2880.
C3_Witness ==
  /\ pc["h1"] = "for" /\ interval("h1") = 1440
  /\ \E b \in todo["h1"] : reminderMail[Row(b, 180)] > 0 /\ ~HasRecord(b, 1440)
  /\ \E r \in ReminderRows : r.reminderType = OTHER_REMINDER /\ reminderMail[r] > 0

\* C4: a booking that is not pending when the booking query of a pass runs
\* is not among that pass's fetched bookings or candidates, and no e-mail is
\* sent and no record written for it in that pass.
C4_OnlyPending ==
  [][\A p \in Sequential :
       /\ bookings'[p] \subseteq pendingAtQuery'[p]
       /\ todo'[p] \subseteq pendingAtQuery'[p]
       /\ \A b \in Bookings :
            (\E m \in Intervals : emails'[<<b, m>>] # emails[<<b, m>>]
                                    \/ reminderMail'[Row(b, m)] # reminderMail[Row(b, m)])
              => b \in pendingAtQuery[p]]_vars

\* C4 witness: a booking old enough for the pass was not pending when the
\* query ran and is not fetched, while another booking is.
C4_Witness ==
  /\ pc["h1"] = "reminderMail.findMany"
  /\ bookings["h1"] # {}
  /\ \E b \in Bookings : /\ booking[b].status # PENDING
                         /\ b \notin pendingAtQuery["h1"]
                         /\ booking[b].createdAt <= now - interval("h1")
                         /\ b \notin bookings["h1"]

\* C5: a rejected send or ledger insert for one booking is contained: it does
\* not end the invocation (which goes on and answers 200).
C5_FailureContained ==
  \A p \in Sequential : thrownAt[p] \notin {SendAwait, CreateAwait}

\* the bookings a pass for m minutes would consider now
Eligible(b, m) ==
  /\ booking[b].status = PENDING
  /\ booking[b].createdAt <= now - m
  /\ ~HasRecord(b, m)

\* C6: when the send for a booking is rejected in the pass for m minutes, no
\* record is written and the counter is not incremented, so the booking has
\* no record with elapsedMinutes >= m and, while it stays pending, is a
\* candidate at m again.
C6_SendFailureWritesNothing ==
  [][\A p \in Sequential :
       (pc[p] = SendAwait /\ thrownAt'[p] = SendAwait)
         => /\ reminderMail' = reminderMail
            /\ emails' = emails
            /\ notificationsSent'[p] <= notificationsSent[p]
            /\ res'[p].status # 200
            /\ booking' = booking /\ now' = now
            /\ ~HasRecord(cur[p], interval(p))
            /\ booking[cur[p]].status = PENDING => Eligible(cur[p], interval(p))]_vars

\* C6 witness: a send was rejected and the only booking with a complete
\* organizer is still unrecorded and eligible.
C6_Witness ==
  /\ thrownAt["h1"] = SendAwait
  /\ MissingProperties(booking[1].user)
  /\ Eligible(2, 180) /\ ~HasRecord(2, 180)
  /\ \A m \in Intervals : emails[<<2, m>>] = 0

\* no secret in the request
NoSecret(r) == r.authorization = Undefined /\ r.apiKey = Undefined

\* C7: the response is 401 exactly when CRON_API_KEY equals neither the
\* authorization header nor the apiKey query parameter; otherwise 405 when
\* the method is not POST; otherwise the dispatch runs and answers 200 with
\* a count; a request without any secret is never authenticated.
C7_TriggerResponse ==
  [][\A p \in Sequential :
       /\ pc[p] = "handler" /\ pc'[p] # "handler"
            => LET neither == CRON_API_KEY # req[p].authorization /\ CRON_API_KEY # req[p].apiKey
               IN /\ res'[p].status = 401 <=> neither
                  /\ res'[p].status = 405 <=> (~neither /\ req[p].method # "POST")
                  /\ pc'[p] = "booking.findMany" <=> (~neither /\ req[p].method = "POST")
                  /\ NoSecret(req[p]) => res'[p].status = 401
       /\ pc[p] \notin {"idle", "handler"} /\ res'[p] # res[p]
            => res'[p].status = 200 /\ res'[p].notificationsSent \in Nat]_vars

\* C8: a request answered 401 or 405 does no processing: the invocation is
\* over without a query, a call of the sender or an insert.
C8_RejectedDoesNothing ==
  [][\A p \in Sequential :
       res'[p].status \in {401, 405}
         => /\ pc'[p] = "idle"
            /\ bookings'[p] = {} /\ reminders'[p] = {} /\ todo'[p] = {}
            /\ reminderMail' = reminderMail
            /\ emails' = emails]_vars

\* C8 witness: a request was answered 405 while a pending booking with a
\* complete organizer was due for its first reminder.
C8_Witness ==
  /\ res["h1"].status = 405
  /\ Eligible(2, 180)
  /\ \A m \in Intervals : emails[<<2, m>>] = 0

\* the organizer is absent, has no timezone, or has neither name nor username
Unusable(user) ==
  user.isNull \/ user.timeZone = Null \/ (user.name = Null /\ user.username = Null)

\* the organizer has a timezone and a username but no name
UsernameOnly(user) ==
  ~user.isNull /\ user.timeZone # Null /\ user.username # Null /\ user.name = Null

\* C9: a booking whose organizer is absent, has no timezone or has neither
\* name nor username is never passed to the sender and never recorded; one
\* whose organizer has a timezone and a username but no name is not skipped
\* and is sent with the username as the organizer's name.
C9_OrganizerValidation ==
  [][\A b \in Bookings :
       /\ Unusable(booking[b].user)
            => /\ \A m \in Intervals : emails'[<<b, m>>] = 0 /\ reminderMail'[Row(b, m)] = 0
               /\ \A p \in Sequential : cur'[p] # b
       /\ UsernameOnly(booking[b].user)
            => /\ \A p \in Sequential :
                    (pc[p] = "for" /\ b \in todo[p] /\ b \notin todo'[p])
                      => (cur'[p] = b /\ pc'[p] = "getTranslation")
               /\ \A n \in organizerNames' : n[1] = b => n[2] = booking[b].user.username]_vars

\* C9 witness: the first booking, whose organizer has no name, was sent with
\* the username.
C9_Witness ==
  /\ UsernameOnly(booking[1].user)
  /\ <<1, "jane">> \in organizerNames
  /\ \E m \in Intervals : emails[<<1, m>>] = 1 /\ reminderMail[Row(1, m)] = 1

\* C10: with overlapping invocations no pair of booking and interval is sent
\* two notifications and the ledger never holds two equal records.
C10_NoDuplicatesWhenOverlapping ==
  \A b \in Bookings, m \in Intervals : emails[<<b, m>>] <= 1 /\ reminderMail[Row(b, m)] <= 1

\* the organizer has a timezone but neither name nor username
NameMissing(user) == ~user.isNull /\ user.timeZone # Null /\ ~Truthy(OrganizerName(user))

\* the ledger as it was when invocation p began (invocations one after the other)
LedgerAtStart(p) ==
  [r \in ReminderRows |->
     IF r.reminderType = PENDING_BOOKING_CONFIRMATION
          /\ <<r.referenceId, r.elapsedMinutes>> \in inserted[p]
     THEN reminderMail[r] - 1 ELSE reminderMail[r]]

\* no record of this reminder kind in a ledger
NoneOfThisKind(table) ==
  \A r \in ReminderRows : r.reminderType = PENDING_BOOKING_CONFIRMATION => table[r] = 0

\* C11: a validation skip removes only the skipped booking from the
\* candidates and sends, records and counts nothing; at the end of a pass
\* every fetched booking with the required organizer data is recorded for the
\* pass's interval, and the skipped ones are not; and when the pending
\* bookings older than a threshold include one without organizer name and
\* the ledger was empty, the run answers with the number of the other ones
\* that have the required organizer data (1 when there are two bookings).
C11_SkipLeavesOthers ==
  [][\A p \in Sequential :
       /\ (pc[p] = "for" /\ pc'[p] = "for" /\ todo'[p] # todo[p])
            => \E b \in todo[p] :
                 /\ MissingProperties(booking[b].user)
                 /\ todo'[p] = todo[p] \ {b}
                 /\ notificationsSent'[p] = notificationsSent[p]
                 /\ inserted'[p] = inserted[p]
                 /\ emails' = emails /\ reminderMail' = reminderMail
       /\ (pc[p] = "for" /\ pc'[p] \in {"booking.findMany", "idle"})
            => \A b \in bookings[p] :
                 IF MissingProperties(booking[b].user)
                 THEN <<b, interval(p)>> \notin inserted[p] /\ emails[<<b, interval(p)>>] = 0
                 ELSE HasRecord(b, interval(p))
                        /\ (b \in Candidates(bookings[p], reminders[p])
                              => <<b, interval(p)>> \in inserted[p])
       /\ (res'[p].status = 200 /\ res[p].status # 200 /\ calm[p] # "changed"
             /\ NoneOfThisKind(LedgerAtStart(p))
             /\ \E b \in Bookings : /\ NameMissing(booking[b].user)
                                     /\ booking[b].status = PENDING
                                     /\ booking[b].createdAt <= now - 180)
            => res'[p].notificationsSent
                 = Cardinality({b \in Bookings : /\ ~MissingProperties(booking[b].user)
                                                 /\ booking[b].status = PENDING
                                                 /\ booking[b].createdAt <= now - 180})]_vars

\* C11 witness: both bookings pending and old enough, the first one without
\* organizer name: the run answered 200 with notificationsSent = 1, and only
\* the second booking has an e-mail and a record.
C11_Witness ==
  /\ res["h1"].status = 200 /\ res["h1"].notificationsSent = 1 /\ settled
  /\ NameMissing(booking[1].user)
  /\ \A b \in {1, 2} : booking[b].status = PENDING /\ booking[b].createdAt <= now - 180
  /\ \A m \in Intervals : emails[<<1, m>>] = 0 /\ reminderMail[Row(1, m)] = 0
  /\ SumOver(emails, {2} \X Intervals) = 1 /\ HasRecord(2, 180)

\* the awaits of the two queries of a pass
QueryAwaits == {"booking.findMany", "reminderMail.findMany"}

\* a send for <<b, m>> is being prepared or awaited
Sending(b, m) ==
  \E p \in Handlers : /\ pc[p] \in {"getTranslation", SendAwait}
                       /\ cur[p] = b /\ interval(p) = m

\* C12: when the booking query or the reminder query of a pass rejects, the
\* invocation is over without a response; the step sends and writes nothing,
\* the run has created no record for that interval or a later one, the
\* records it created in earlier passes are still in the ledger, and until
\* the next request nothing is sent or written; a booking and interval with
\* a record in the ledger is never sent again.
C12_FetchFailureAborts ==
  [][\A p \in Sequential :
       /\ (pc[p] \in QueryAwaits /\ thrownAt'[p] \in QueryAwaits)
            => /\ pc'[p] = "idle"
               /\ res'[p] = NoRes
               /\ emails' = emails /\ reminderMail' = reminderMail
               /\ inserted'[p] = inserted[p]
               /\ \A k \in inserted[p] : k[2] > interval(p) /\ reminderMail'[Row(k[1], k[2])] > 0
       /\ pc[p] = "idle" => emails' = emails /\ reminderMail' = reminderMail
       /\ \A b \in Bookings, m \in Intervals : reminderMail[Row(b, m)] > 0 => ~Sending(b, m)]_vars

\* C12 witness: the run sent and recorded the second booking in the pass for
\* 1440 minutes, a query of the next pass was rejected, there is no response
\* and the record is in the ledger.
C12_Witness ==
  /\ thrownAt["h1"] \in QueryAwaits /\ pc["h1"] = "idle"
  /\ inserted["h1"] = {<<2, 1440>>}
  /\ res["h1"].status = 0
  /\ reminderMail[Row(2, 1440)] = 1 /\ emails[<<2, 1440>>] = 1

\* evt.attendees as it has to be for booking b: one element per attendee, in
\* the order of booking.attendees
ExpectedAttendees(b) ==
  [i \in DOMAIN booking[b].attendees |->
     LET a == booking[b].attendees[i]
         l == IF a.locale = Null THEN "en" ELSE a.locale
     IN [name |-> a.name, email |-> a.email, timeZone |-> a.timeZone,
         language |-> [translate |-> Translator(l), locale |-> l]]]

\* C13: whatever the order in which the translator lookups of the attendees
\* resolve, the sender is called only when all of them have resolved, with an
\* attendee list of the length of booking.attendees whose i-th element has
\* the name, email, timezone and locale ("en" when unset) of the i-th
\* attendee; when one lookup is rejected the sender is not called.
C13_AttendeeFanIn ==
  [][\A p \in Sequential :
       /\ pc'[p] = SendAwait
            => /\ attendeesList'[p] = ExpectedAttendees(cur'[p])
               /\ Len(attendeesList'[p]) = Len(booking[cur'[p]].attendees)
               /\ {completion'[p][k] : k \in DOMAIN completion'[p]}
                     = DOMAIN booking[cur'[p]].attendees
       /\ \A e \in payloads' : e[2] = ExpectedAttendees(e[1])
       /\ (pc[p] = "Promise.all" /\ thrownAt'[p] = "Promise.all")
            => pc'[p] = "idle" /\ emails' = emails /\ payloads' = payloads]_vars

\* C13 witness: the lookups of the three attendees resolved in the order
\* 3, 1, 2 and the e-mail went out with the attendees in the order 1, 2, 3,
\* the second one with locale "en".
C13_Witness ==
  /\ pc["h1"] = CreateAwait /\ cur["h1"] = 2
  /\ completion["h1"] = <<3, 1, 2>>
  /\ \E e \in payloads :
       /\ e[1] = 2 /\ Len(e[2]) = 3
       /\ e[2][1].name = "a1" /\ e[2][2].name = "a2" /\ e[2][3].name = "a3"
       /\ e[2][1].language.locale = "fr" /\ e[2][2].language.locale = "en"

\* the records of this reminder kind in the ledger
Records == SumOver(reminderMail, {r \in ReminderRows : r.reminderType = PENDING_BOOKING_CONFIRMATION})

\* C14: while an invocation runs its counter equals the number of records it
\* has created, all of them in the ledger; the counter goes up exactly in
\* the steps that add a record to the ledger; the notificationsSent of a 200
\* response is that number; and a rejected send or insert increments
\* nothing and is not followed by a 200 response.
C14_CounterIntegrity ==
  [][\A p \in Sequential :
       /\ pc[p] \notin {"idle", "handler"}
            => /\ notificationsSent[p] = Cardinality(inserted[p])
               /\ \A k \in inserted[p] : reminderMail[Row(k[1], k[2])] >= 1
       /\ (notificationsSent'[p] = notificationsSent[p] + 1)
            <=> (reminderMail' # reminderMail)
       /\ reminderMail' # reminderMail
            => reminderMail' = [reminderMail EXCEPT ![Row(cur[p], interval(p))] = @ + 1]
       /\ (res'[p].status = 200 /\ res[p].status # 200)
            => res'[p].notificationsSent = Cardinality(inserted[p])
       /\ (pc[p] \in {SendAwait, CreateAwait} /\ thrownAt'[p] \in {SendAwait, CreateAwait})
            => /\ notificationsSent'[p] <= notificationsSent[p]
               /\ inserted'[p] = inserted[p] /\ reminderMail' = reminderMail
               /\ res'[p].status # 200]_vars

\* C14 witness: a run answered 200 with notificationsSent = 2 and the ledger
\* holds two records, after an earlier run whose insert was rejected.
C14_Witness ==
  /\ res["h1"].status = 200 /\ res["h1"].notificationsSent = 2
  /\ Records = 2
  /\ InsertFailures = 1

\* the orders in which the three intervals can be processed
Orders == {o \in [1..Len(reminderIntervalMinutes) -> Intervals] :
             \A i, j \in DOMAIN o : o[i] = o[j] => i = j}

\* smallest interval first
Ascending == [i \in 1..Len(reminderIntervalMinutes) |->
                reminderIntervalMinutes[Len(reminderIntervalMinutes) + 1 - i]]

\* booking b would be sent a reminder by a pass for m minutes run now
Due(b, m) == Eligible(b, m) /\ ~MissingProperties(booking[b].user)

\* order o processes a smaller interval before a larger one, both due for b
Inverted(o, b) ==
  \E i, j \in DOMAIN o : i < j /\ o[i] < o[j] /\ Due(b, o[i]) /\ Due(b, o[j])

\* C15 as stated: from the bookings, ledger and clock at the arrival of a
\* request, processing the intervals in any order gives the same e-mails,
\* the same ledger and the same notificationsSent as the order 2880, 1440, 180.
C15_ThresholdsIndependent ==
  \A p \in Sequential :
    pc[p] = "handler"
      => \A o \in Orders :
           RunPasses(o, reminderMail, booking, now)
             = RunPasses(reminderIntervalMinutes, reminderMail, booking, now)

\* C15 amended: a record at an interval suppresses every smaller interval, so
\* the order matters.  A run of the handler with the clock and the bookings
\* unchanged is RunPasses in the order 2880, 1440, 180; another order gives
\* the same result when it processes no smaller interval before a larger one
\* that are both due for a booking, and the ascending order gives the same
\* result only when no booking is due at two intervals.
C15_OrderMatters ==
  [][\A p \in Sequential :
       /\ (res'[p].status = 200 /\ res[p].status # 200 /\ calm[p] # "changed")
            => RunPasses(reminderIntervalMinutes, LedgerAtStart(p), booking, now)
                 = [ledger |-> reminderMail, sent |-> inserted[p],
                    notificationsSent |-> res'[p].notificationsSent]
       /\ pc[p] = "handler"
            => LET reference == RunPasses(reminderIntervalMinutes, reminderMail, booking, now) IN
                 /\ \A o \in Orders :
                      (\A b \in Bookings : ~Inverted(o, b))
                        => RunPasses(o, reminderMail, booking, now) = reference
                 /\ RunPasses(Ascending, reminderMail, booking, now) = reference
                      <=> \A b \in Bookings : Cardinality({m \in Intervals : Due(b, m)}) <= 1
                 /\ \A b \in Bookings : Cardinality({k \in reference.sent : k[1] = b}) <= 1]_vars

\* C15 witness: a run answered 200 having sent the second booking, older
\* than all three intervals, its one reminder at 2880, where the ascending
\* order would have sent it three.
C15_Witness ==
  /\ res["h1"].status = 200 /\ res["h1"].notificationsSent = 1 /\ settled
  /\ Records = 1 /\ reminderMail[Row(2, 2880)] = 1
  /\ MissingProperties(booking[1].user)
  /\ RunPasses(Ascending, InitReminderMail, booking, now).notificationsSent = 3

\* invocation p is between the validation and the insert of booking b
Processing(p, b) ==
  /\ pc[p] \in {"getTranslation", "Promise.all", SendAwait, CreateAwait}
  /\ cur[p] = b

\* C16: in one run a booking is processed at most once: while it is being
\* sent the run has no record for it yet, and the run creates at most one
\* record for it; a booking for which the run has created a record is
\* never a candidate of a later pass of that run; and with the clock and the
\* bookings unchanged since the run began, the interval at which a booking
\* is sent is the largest one at which it is old enough and unsuppressed.
C16_OncePerRunAtLargest ==
  [][\A p \in Sequential, b \in Bookings :
       /\ Cardinality({k \in inserted[p] : k[1] = b}) <= 1
       /\ Processing(p, b) => \A k \in inserted[p] : k[1] # b
       /\ (\E k \in inserted[p] : k[1] = b) => b \notin todo'[p]
       /\ (Processing(p, b) /\ pc[p] # CreateAwait /\ calm[p] # "changed")
            => /\ Eligible(b, interval(p))
               /\ \A m \in Intervals : m > interval(p) => ~Eligible(b, m)]_vars

\* C16 witness: the second booking, 2880 minutes old and with no record when
\* the run began, was sent once in the pass for 2880 and is fetched and
\* suppressed in the pass for 180 of the same run.
C16_Witness ==
  /\ pc["h1"] = "for" /\ interval("h1") = 180 /\ calm["h1"] # "changed"
  /\ inserted["h1"] = {<<2, 2880>>}
  /\ 2 \in bookings["h1"] /\ 2 \notin todo["h1"]
  /\ SumOver(emails, {2} \X Intervals) = 1
  /\ reminderMail[Row(2, 2880)] = 1 /\ booking[2].createdAt <= now - 2880

\* invocations awaiting the insert for <<b, m>>
Creating(b, m) ==
  Cardinality({p \in Handlers : pc[p] = CreateAwait /\ cur[p] = b /\ interval(p) = m})

\* C17: a step that adds a record to the ledger adds one row, (b,
\* PENDING_BOOKING_CONFIRMATION, T), by an invocation that is in its pass for
\* T and awaits the insert for b, which it reaches only from the send for b
\* having resolved in that pass; every send that resolves is followed by
\* the call of the insert; after every send and every insert, for every
\* booking and interval the records and the inserts under way are no more
\* than the e-mails sent, and as many when no insert has been rejected.
C17_SendBeforeRecord ==
  [][/\ (emails' # emails \/ reminderMail' # reminderMail)
          => /\ \A b \in Bookings, m \in Intervals :
                  (reminderMail[Row(b, m)] + Creating(b, m))' <= emails'[<<b, m>>]
             /\ InsertFailures' = 0
                  => \A b \in Bookings, m \in Intervals :
                       (reminderMail[Row(b, m)] + Creating(b, m))' = emails'[<<b, m>>]
     /\ \A p \in Sequential :
          /\ reminderMail' # reminderMail
               => /\ pc[p] = CreateAwait
                  /\ reminderMail' = [reminderMail EXCEPT ![Row(cur[p], interval(p))] = @ + 1]
                  /\ emails[<<cur[p], interval(p)>>] > reminderMail[Row(cur[p], interval(p))]
                  /\ emails' = emails
          /\ pc'[p] = CreateAwait
               => /\ pc[p] \in {SendAwait, CreateAwait}
                  /\ cur'[p] = cur[p] /\ interval(p)' = interval(p)
                  /\ pc[p] = SendAwait
                       => emails'[<<cur[p], interval(p)>>] = emails[<<cur[p], interval(p)>>] + 1
          /\ emails' # emails => pc[p] = SendAwait /\ pc'[p] = CreateAwait]_vars

\* C17 witness: the e-mail for the second booking went out in the pass for
\* 1440 minutes, the insert is awaited and the ledger has no record for it
\* at 1440 yet (it has the one of an earlier run at 180).
C17_Witness ==
  /\ pc["h1"] = CreateAwait /\ cur["h1"] = 2 /\ interval("h1") = 1440
  /\ emails[<<2, 1440>>] = 1 /\ reminderMail[Row(2, 1440)] = 0
  /\ reminderMail[Row(2, 180)] = 1 /\ InsertFailures = 0

\* a step of invocation p
StepOf(p) == pc'[p] # pc[p] \/ todo'[p] # todo[p]

\* C18: no step removes or changes a record of the ledger: the number of
\* copies of every row never goes down, and rows of other reminder kinds are
\* left alone; and a step of an invocation leaves the bookings, the clock
\* and the configured secret as they are.
C18_LedgerAppendOnly ==
  [][/\ \A r \in ReminderRows :
          /\ reminderMail'[r] >= reminderMail[r]
          /\ r.reminderType # PENDING_BOOKING_CONFIRMATION => reminderMail'[r] = reminderMail[r]
     /\ \A p \in Sequential :
          StepOf(p) => booking' = booking /\ now' = now /\ CRON_API_KEY' = CRON_API_KEY]_vars

\* C18 witness: after three runs the second booking has its records at 180,
\* 1440 and 2880, and the first booking's record of another kind is there.
C18_Witness ==
  /\ \A m \in Intervals : reminderMail[Row(2, m)] = 1
  /\ reminderMail[[referenceId |-> 1, reminderType |-> OTHER_REMINDER, elapsedMinutes |-> 2880]] = 1
  /\ pc["h1"] = "idle" /\ res["h1"].status = 200

\* C19: with invocations one after the other, a record the handler creates
\* for a booking has an elapsedMinutes greater than that of every record of
\* this kind the ledger holds for the booking; so no row of this kind has
\* two copies, a booking has at most three records of this kind, and a
\* booking with a record at 2880 is not processed and not sent again.
C19_Escalation ==
  [][/\ \A p \in Sequential :
          (pc[p] = CreateAwait /\ reminderMail' # reminderMail)
            => \A n \in Intervals :
                 reminderMail[Row(cur[p], n)] > 0 => n < interval(p)
     /\ reminderMail' # reminderMail
          => \A b \in Bookings :
               /\ \A m \in Intervals : reminderMail'[Row(b, m)] <= 1
               /\ Cardinality({m \in Intervals : reminderMail'[Row(b, m)] > 0}) <= 3
     /\ \A b \in Bookings :
          reminderMail[Row(b, 2880)] > 0
            => /\ \A m \in Intervals : emails'[<<b, m>>] = emails[<<b, m>>]
               /\ \A p \in Sequential : ~Processing(p, b) /\ b \notin todo[p]]_vars

\* C19 witness: the second booking had its record at 180 and the run has
\* just created the one at 1440.
C19_Witness ==
  /\ pc["h1"] = "for" /\ inserted["h1"] = {<<2, 1440>>}
  /\ reminderMail[Row(2, 180)] = 1 /\ reminderMail[Row(2, 1440)] = 1
  /\ reminderMail[Row(2, 2880)] = 0

\* a step in which an await of invocation p is rejected
Rejected(p) == thrownAt'[p] # "" /\ thrownAt[p] = ""

\* C20: when the handler keeps being triggered and from some time on no
\* await is rejected, a pending booking with the required organizer data
\* that is old enough for an interval eventually has a record with
\* elapsedMinutes at least that interval; and in every pass, whatever
\* happened in earlier invocations, each fetched booking without such a
\* record is a candidate.
C20_EventualReminder ==
  /\ (<>[][\A p \in Sequential : ~Rejected(p)]_vars)
       => \A b \in Bookings, m \in Intervals :
            (/\ booking[b].status = PENDING
             /\ ~MissingProperties(booking[b].user)
             /\ booking[b].createdAt <= now - m) ~> HasRecord(b, m)
  /\ [][\A p \in Sequential :
          (pc[p] = "reminderMail.findMany" /\ pc'[p] = "for")
            => \A b \in Bookings :
                 (b \in bookings[p] /\ ~HasRecord(b, interval(p))) => b \in todo'[p]]_vars

\* C20 witness: the insert after the first e-mail for the second booking at
\* 180 minutes was rejected; a later invocation sent it again at 180 and
\* recorded it.
C20_Witness ==
  /\ emails[<<2, 180>>] = 2 /\ reminderMail[Row(2, 180)] = 1
  /\ booking[2].status = PENDING

====
